---- MODULE Spec2Model ----
(***************************************************************************)
(* Model of the retrieval pipeline of rag-mcp (src/src/rag_engine.py) and  *)
(* of the argument hand-over of its tool gateway (src/src/server.py).      *)
(*                                                                         *)
(* The vector store (Qdrant) and the embedding backend are external,       *)
(* shared resources.  Every round trip to one of them is one atomic step;  *)
(* callers (tool invocations, possibly of several server processes that   *)
(* point at the same store) interleave between round trips.  Each round    *)
(* trip may fail (store unreachable / request rejected / provider error): *)
(* that is the nondeterministic `fault' input of the step.                 *)
(***************************************************************************)
EXTENDS Integers, Sequences, FiniteSets, TLC

(* ------------------------------ bounds -------------------------------- *)
\* longest document list handed to add_documents
MaxDocs == 2
\* number of uuid4 values drawn in one run
MaxIds == 2
\* largest `limit' a search is called with (schema: 1..50)
MaxLimit == 1

\* the concurrent callers: the races of the pipeline are between two
Procs == {1, 2}
\* collection names; "documents" is DEFAULT_COLLECTION
Names == {"documents", "test"}
\* documents handed to add_documents: content and metadata
Docs == { [content |-> "The sky is blue", metadata |-> "none"],
          [content |-> "", metadata |-> "source=web"] }
Queries == {"sky color"}
\* embedding vectors: unit vectors, so that cosine similarity is the dot product
Vectors == { <<1, 0>>, <<0, 1>> }
\* the embedding backend, a stub: equal texts get equal vectors
Embedding(text) == IF text \in {"The sky is blue", "sky color"} THEN <<1, 0>> ELSE <<0, 1>>
\* score_threshold values (schema: 0..1)
Thresholds == {0, 1}

RECURSIVE SeqsUpTo(_, _)
SeqsUpTo(S, n) ==
  IF n = 0 THEN { <<>> }
  ELSE LET shorter == SeqsUpTo(S, n - 1)
       IN shorter \cup { Append(s, x) : s \in { t \in shorter : Len(t) = n - 1 }, x \in S }

DocLists == SeqsUpTo(Docs, MaxDocs)

NoName == "<none>"
NoResult == [kind |-> "none"]

(* ------------------------------- state -------------------------------- *)
VARIABLES
  cols,       \* the store: names of the existing collections
  pts,        \* the store: pts[c] is the set of points of collection c
  nextId,     \* the uuid4 source: every draw is a value never drawn before
  pc,         \* pc[p]: the round trip caller p is about to make ("idle": none)
  op,         \* op[p]: the operation of p's current (or last) call
  coll,       \* op argument: collection name
  docs,       \* op argument: document list (add_documents)
  query,      \* op argument: query text (search_documents)
  limit,      \* op argument: limit (search_documents)
  thr,        \* op argument: score_threshold (search_documents)
  lpoints,    \* add_documents local `points'
  qvec,       \* search_documents local `query_embedding'
  lnames,     \* list_collections local: collections still to be inspected
  linfo,      \* list_collections local `collection_info'
  result,     \* what the call handed to its caller: a payload or a fault
  raised,     \* history: the exception raised inside p's current/last call
  failedAt,   \* history: index of the document whose embedding call failed
  embedCalls, \* history: embedding requests sent by p's current/last call
  genIds,     \* history: ids generated by p's current/last add_documents
  before,     \* history: point count of coll[p] when add_documents was called
  disturbed,  \* history: coll[p]'s points were changed by others since then
  embModel, embProvider, \* configuration: EMBEDDING_MODEL, EMBEDDING_PROVIDER
  reqDoc,     \* last outbound embedding request of an indexing call
  reqQuery    \* last outbound embedding request of a query call

storeVars == <<cols, pts>>
callVars == <<pc, op, coll, docs, query, limit, thr, lpoints, qvec, lnames, linfo, result>>
histVars == <<raised, failedAt, embedCalls, genIds, before, disturbed>>
embVars == <<embModel, embProvider, reqDoc, reqQuery>>
vars == <<cols, pts, nextId, pc, op, coll, docs, query, limit, thr, lpoints, qvec, lnames,
          linfo, result, raised, failedAt, embedCalls, genIds, before, disturbed,
          embModel, embProvider, reqDoc, reqQuery>>

(* --------------------------- embedding client ------------------------- *)
\* Texts are sequences of characters, so that prefixing and substring tests
\* are computed, not assumed.
S_search == <<"s", "e", "a", "r", "c", "h", "_">>
SearchDocument == S_search \o <<"d", "o", "c", "u", "m", "e", "n", "t">>
SearchQuery == S_search \o <<"q", "u", "e", "r", "y">>
Nomic == <<"n", "o", "m", "i", "c">>
LmStudio == <<"l", "m", "s", "t", "u", "d", "i", "o">>
Ollama == <<"o", "l", "l", "a", "m", "a">>

\* EMBEDDING_MODEL values: the default and three others
ModelNames == { Nomic \o <<"-", "e", "m", "b", "e", "d", "-", "t", "e", "x", "t">>,
                <<"N", "o", "m", "i", "c", "-", "v", "2">>,
                <<"b", "g", "e", "-", "m", "3">>,
                <<"m", "o", "n", "i", "c">> }
\* EMBEDDING_PROVIDER values
ProviderNames == { Ollama, LmStudio, <<"L", "M", "S", "t", "u", "d", "i", "o">> }
\* texts handed to get_embedding
Texts == { <<>>, <<"h", "i">>, SearchQuery \o <<":", " ", "h", "i">> }

\* str.lower() on the characters the names above use
Lower(ch) ==
  CASE ch = "N" -> "n" [] ch = "L" -> "l" [] ch = "M" -> "m" [] ch = "S" -> "s"
    [] OTHER -> ch

LowerSeq(s) == [i \in 1..Len(s) |-> Lower(s[i])]

\* `sub in s'
Contains(s, sub) ==
  \E i \in 1..(Len(s) - Len(sub) + 1) : SubSeq(s, i, i + Len(sub) - 1) = sub

\* a mutant of PrefixedText: the task prefix of the caller is ignored
PrefixedTextOnePrefix(model, task_prefix, text) ==
  IF Contains(LowerSeq(model), Nomic)
    THEN SearchDocument \o <<":", " ">> \o text
    ELSE text

\* get_embedding, lines 35-38
PrefixedText(model, task_prefix, text) ==
  IF Contains(LowerSeq(model), Nomic)
    THEN task_prefix \o <<":", " ">> \o text
    ELSE text

\* get_embedding, lines 40-61: the request that leaves the process
EmbeddingRequest(provider, model, task_prefix, text) ==
  IF LowerSeq(provider) = LmStudio
    THEN [url |-> "/v1/embeddings", model |-> model, key |-> "input",
          text |-> PrefixedText(model, task_prefix, text)]
    ELSE [url |-> "/api/embeddings", model |-> model, key |-> "prompt",
          text |-> PrefixedText(model, task_prefix, text)]

(* ----------------------------- vector store --------------------------- *)
Range(s) == { s[i] : i \in 1..Len(s) }
Ids(S) == { x.id : x \in S }

StoreDown == "store unreachable"
ProviderDown == "provider error"

\* qdrant.get_collections().collections as a list
RECURSIVE SetToSeq(_)
SetToSeq(S) ==
  IF S = {} THEN <<>>
  ELSE LET x == CHOOSE y \in S : TRUE IN <<x>> \o SetToSeq(S \ {x})

\* qdrant.create_collection: the store rejects a name that exists
CreateCollection(cs, c) ==
  IF c \in cs
    THEN [ok |-> FALSE, err |-> "already exists", cols |-> cs]
    ELSE [ok |-> TRUE, err |-> "", cols |-> cs \cup {c}]

\* a mutant of StoreUpsert: the batch replaces the collection's points
StoreUpsertReplace(cs, ps, c, new) ==
  IF c \notin cs
    THEN [ok |-> FALSE, err |-> "not found", pts |-> ps]
    ELSE [ok |-> TRUE, err |-> "", pts |-> [ps EXCEPT ![c] = Range(new)]]

\* qdrant.upsert: a point whose id exists is overwritten, the others are added
StoreUpsert(cs, ps, c, new) ==
  IF c \notin cs
    THEN [ok |-> FALSE, err |-> "not found", pts |-> ps]
    ELSE [ok |-> TRUE, err |-> "",
          pts |-> [ps EXCEPT ![c] = { x \in @ : x.id \notin Ids(Range(new)) }
                                      \cup Range(new)]]

\* cosine similarity of unit vectors
Score(q, v) == q[1] * v[1] + q[2] * v[2]

\* the `k' best of S, by descending score; ties in the store's own order
RECURSIVE Nearest(_, _, _)
Nearest(S, q, k) ==
  IF S = {} \/ k <= 0 THEN <<>>
  ELSE LET best == CHOOSE x \in S : \A y \in S : Score(q, x.vector) >= Score(q, y.vector)
       IN <<[id |-> best.id, score |-> Score(q, best.vector),
             payload |-> [content |-> best.content, metadata |-> best.metadata]]>>
          \o Nearest(S \ {best}, q, k - 1)

\* a mutant of QueryPoints: a missing collection yields an empty answer
QueryPointsLenient(cs, ps, c, q, lim, th) ==
  IF c \notin cs
    THEN [ok |-> TRUE, err |-> "", points |-> <<>>]
    ELSE [ok |-> TRUE, err |-> "",
          points |-> Nearest({ x \in ps[c] : Score(q, x.vector) >= th }, q, lim)]

\* a mutant of QueryPoints: score_threshold is not handed to the store
QueryPointsNoThreshold(cs, ps, c, q, lim, th) ==
  IF c \notin cs
    THEN [ok |-> FALSE, err |-> "not found", points |-> <<>>]
    ELSE [ok |-> TRUE, err |-> "", points |-> Nearest(ps[c], q, lim)]

\* qdrant.query_points(collection_name, query, limit, score_threshold).points
QueryPoints(cs, ps, c, q, lim, th) ==
  IF c \notin cs
    THEN [ok |-> FALSE, err |-> "not found", points |-> <<>>]
    ELSE [ok |-> TRUE, err |-> "",
          points |-> Nearest({ x \in ps[c] : Score(q, x.vector) >= th }, q, lim)]

\* qdrant.get_collection(name): one unnamed vector per point
GetCollection(cs, ps, c) ==
  IF c \notin cs
    THEN [ok |-> FALSE, err |-> "not found", points_count |-> 0, vectors_count |-> 0]
    ELSE [ok |-> TRUE, err |-> "", points_count |-> Cardinality(ps[c]),
          vectors_count |-> Cardinality(ps[c])]

\* qdrant.delete_collection: answers whether the name existed, raises nothing
DeleteCollection(cs, ps, c) ==
  [existed |-> c \in cs, cols |-> cs \ {c}, pts |-> [ps EXCEPT ![c] = {}]]

(* --------------------------- retrieval pipeline ----------------------- *)
NoVec == <<0, 0>>
Limits == 1..MaxLimit

\* a mutant of Catch: the exception leaves the operation
CatchNothing(e) == [kind |-> "fault", success |-> FALSE, error |-> e]

\* `except Exception as e: return json.dumps({"success": False, "error": str(e)})'
Catch(e) == [kind |-> "payload", success |-> FALSE, error |-> e]

\* ensure_collection's `raise Exception(f"Failed to ensure collection: {str(e)}")'
EnsureRaise(e) == "Failed to ensure collection: " \o e

\* a mutant of Absent: the existence test is dropped
AbsentAlways(names, c) == TRUE

\* ensure_collection: `not any(c.name == collection_name for c in collections)'
Absent(names, c) == c \notin names

\* ensure_collection run from start to end on a reachable store, with no other
\* caller in between: whether it raised, and the collections it leaves
EnsureCollectionRun(cs, c) ==
  IF Absent(cs, c)
    THEN [raised |-> ~CreateCollection(cs, c).ok, cols |-> CreateCollection(cs, c).cols]
    ELSE [raised |-> FALSE, cols |-> cs]

\* a mutant of NewId: the id is not drawn afresh
NewIdFixed(n) == 1

\* str(uuid.uuid4()): the n-th draw
NewId(n) == n

\* a mutant of AfterEmbed: a failed embedding call is skipped, the loop goes on
AfterEmbedSkip(ok, i, n) == IF i >= n THEN "upsert" ELSE "embed"

\* add_documents: where control goes after the i-th of n embedding calls
AfterEmbed(ok, i, n) ==
  IF ~ok THEN "idle" ELSE IF i >= n THEN "upsert" ELSE "embed"

\* add_documents: the loop over an empty list is skipped
AfterEnsure(d) == IF Len(d) = 0 THEN "upsert" ELSE "embed"

\* search_documents: formatted_results
FormatResults(points) ==
  [i \in 1..Len(points) |->
     [score |-> points[i].score, content |-> points[i].payload.content,
      metadata |-> points[i].payload.metadata, id |-> points[i].id]]

\* the call of p returns `res' to the gateway: its arguments and locals are gone
Return(p, res) ==
  /\ pc' = [pc EXCEPT ![p] = "idle"]
  /\ result' = [result EXCEPT ![p] = res]
  /\ coll' = [coll EXCEPT ![p] = NoName]
  /\ docs' = [docs EXCEPT ![p] = <<>>]
  /\ query' = [query EXCEPT ![p] = ""]
  /\ limit' = [limit EXCEPT ![p] = 0]
  /\ thr' = [thr EXCEPT ![p] = 0]
  /\ lpoints' = [lpoints EXCEPT ![p] = <<>>]
  /\ qvec' = [qvec EXCEPT ![p] = NoVec]
  /\ lnames' = [lnames EXCEPT ![p] = <<>>]
  /\ linfo' = [linfo EXCEPT ![p] = <<>>]
  /\ UNCHANGED op

\* an exception `e' reaches the operation's except clause
Fail(p, e) ==
  /\ Return(p, Catch(e))
  /\ raised' = [raised EXCEPT ![p] = e]

\* the call of p goes on with round trip `next'
Goto(p, next) ==
  /\ pc' = [pc EXCEPT ![p] = next]
  /\ UNCHANGED <<op, coll, docs, query, limit, thr, lnames, linfo, result>>

\* history: the step of p leaves the store's points as `newPts'
Disturbed(p, newPts) ==
  [q \in Procs |->
     IF q = p THEN disturbed[p]
     ELSE disturbed[q] \/ ( /\ pc[q] # "idle"
                            /\ op[q] = "add_documents"
                            /\ newPts[coll[q]] # pts[coll[q]] )]

\* history: p's step leaves the store's points as `newPts' and ends p's call
Track(p, newPts) ==
  /\ disturbed' = [q \in Procs |-> IF q = p THEN FALSE ELSE Disturbed(p, newPts)[q]]
  /\ before' = [q \in Procs |->
                  IF q = p \/ Disturbed(p, newPts)[q] THEN 0 ELSE before[q]]

\* a new call starts: the history of the caller's last call is forgotten
Begin(p, o, c, d, qu, lim, th, first) ==
  /\ pc[p] = "idle"
  /\ pc' = [pc EXCEPT ![p] = first]
  /\ op' = [op EXCEPT ![p] = o]
  /\ coll' = [coll EXCEPT ![p] = c]
  /\ docs' = [docs EXCEPT ![p] = d]
  /\ query' = [query EXCEPT ![p] = qu]
  /\ limit' = [limit EXCEPT ![p] = lim]
  /\ thr' = [thr EXCEPT ![p] = th]
  /\ result' = [result EXCEPT ![p] = NoResult]
  /\ raised' = [raised EXCEPT ![p] = ""]
  /\ failedAt' = [failedAt EXCEPT ![p] = 0]
  /\ embedCalls' = [embedCalls EXCEPT ![p] = 0]
  /\ genIds' = [genIds EXCEPT ![p] = {}]
  /\ before' = [before EXCEPT ![p] = IF o = "add_documents" THEN Cardinality(pts[c]) ELSE 0]
  /\ disturbed' = [disturbed EXCEPT ![p] = FALSE]
  /\ UNCHANGED <<cols, pts, nextId, lpoints, qvec, lnames, linfo, embVars>>

(* handle_call_tool: the four tools *)
CallAdd(p, d, c) ==
  /\ d \in DocLists
  /\ Begin(p, "add_documents", c, d, "", 0, 0, "ensure_list")

CallSearch(p, qu, c, lim, th) ==
  /\ lim \in Limits /\ th \in Thresholds
  /\ Begin(p, "search_documents", c, <<>>, qu, lim, th, "search_embed")

CallList(p) ==
  /\ p \in Procs
  /\ Begin(p, "list_collections", NoName, <<>>, "", 0, 0, "list")

CallDelete(p, c) ==
  /\ c \in Names
  /\ Begin(p, "delete_collection", c, <<>>, "", 0, 0, "delete")

(* ensure_collection: qdrant.get_collections() and the existence test *)
EnsureList(p, fault) ==
  /\ pc[p] = "ensure_list"
  /\ IF fault
       THEN /\ Fail(p, EnsureRaise(StoreDown))
            /\ Track(p, pts)
       ELSE /\ Goto(p, IF Absent(cols, coll[p]) THEN "ensure_create"
                       ELSE AfterEnsure(docs[p]))
            /\ UNCHANGED <<lpoints, qvec, raised, before, disturbed>>
  /\ UNCHANGED <<cols, pts, nextId, failedAt, embedCalls, genIds, embVars>>

(* ensure_collection: qdrant.create_collection(...) *)
EnsureCreate(p, fault) ==
  /\ pc[p] = "ensure_create"
  /\ LET r == CreateCollection(cols, coll[p])
     IN IF fault \/ ~r.ok
          THEN /\ Fail(p, EnsureRaise(IF fault THEN StoreDown ELSE r.err))
               /\ Track(p, pts)
               /\ UNCHANGED cols
          ELSE /\ Goto(p, AfterEnsure(docs[p]))
               /\ cols' = r.cols
               /\ UNCHANGED <<lpoints, qvec, raised, before, disturbed>>
  /\ UNCHANGED <<pts, nextId, failedAt, embedCalls, genIds, embVars>>

(* add_documents: one turn of the loop; `fault': the embedding call fails *)
Embed(p, fault) ==
  /\ pc[p] = "embed"
  /\ embedCalls[p] < Len(docs[p])
  /\ LET doc == docs[p][embedCalls[p] + 1]
         next == AfterEmbed(~fault, embedCalls[p] + 1, Len(docs[p]))
         point == [id |-> NewId(nextId), vector |-> Embedding(doc.content),
                   content |-> doc.content, metadata |-> doc.metadata]
     IN /\ embedCalls' = [embedCalls EXCEPT ![p] = @ + 1]
        /\ IF fault
             THEN /\ failedAt' = [failedAt EXCEPT ![p] = embedCalls[p] + 1]
                  /\ raised' = [raised EXCEPT ![p] = ProviderDown]
                  /\ UNCHANGED <<nextId, genIds>>
             ELSE /\ nextId <= MaxIds
                  /\ genIds' = [genIds EXCEPT ![p] = @ \cup {point.id}]
                  /\ nextId' = nextId + 1
                  /\ UNCHANGED <<failedAt, raised>>
        /\ IF next = "idle"
             THEN /\ Return(p, Catch(ProviderDown))
                  /\ Track(p, pts)
             ELSE /\ Goto(p, next)
                  /\ lpoints' = [lpoints EXCEPT ![p] = IF fault THEN @ ELSE Append(@, point)]
                  /\ UNCHANGED <<qvec, before, disturbed>>
  /\ UNCHANGED <<cols, pts, embVars>>

(* add_documents: qdrant.upsert(collection_name, points) and the success payload *)
Upsert(p, fault) ==
  /\ pc[p] = "upsert"
  /\ LET r == StoreUpsert(cols, pts, coll[p], lpoints[p])
     IN IF fault \/ ~r.ok
          THEN /\ Fail(p, IF fault THEN StoreDown ELSE r.err)
               /\ Track(p, pts)
               /\ UNCHANGED <<pts, genIds>>
          ELSE /\ Return(p, [kind |-> "payload", success |-> TRUE,
                             count |-> Len(docs[p])])
               /\ pts' = r.pts
               /\ Track(p, r.pts)
               /\ genIds' = [genIds EXCEPT ![p] = {}]
               /\ UNCHANGED raised
  /\ UNCHANGED <<cols, nextId, failedAt, embedCalls, embVars>>

(* search_documents: get_embedding(query, "search_query") *)
SearchEmbed(p, fault) ==
  /\ pc[p] = "search_embed"
  /\ embedCalls' = [embedCalls EXCEPT ![p] = @ + 1]
  /\ IF fault
       THEN Fail(p, ProviderDown)
       ELSE /\ Goto(p, "query")
            /\ qvec' = [qvec EXCEPT ![p] = Embedding(query[p])]
            /\ UNCHANGED <<lpoints, raised>>
  /\ UNCHANGED <<cols, pts, nextId, failedAt, genIds, before, disturbed, embVars>>

(* search_documents: qdrant.query_points(...) and the success payload *)
Query(p, fault) ==
  /\ pc[p] = "query"
  /\ LET r == QueryPoints(cols, pts, coll[p], qvec[p], limit[p], thr[p])
     IN IF fault \/ ~r.ok
          THEN Fail(p, IF fault THEN StoreDown ELSE r.err)
          ELSE /\ Return(p, [kind |-> "payload", success |-> TRUE,
                             count |-> Len(FormatResults(r.points)),
                             results |-> FormatResults(r.points)])
               /\ UNCHANGED raised
  /\ UNCHANGED <<cols, pts, nextId, failedAt, embedCalls, genIds, before, disturbed, embVars>>

(* list_collections: qdrant.get_collections() *)
ListGet(p, fault) ==
  /\ pc[p] = "list"
  /\ IF fault
       THEN Fail(p, StoreDown)
       ELSE IF cols = {}
         THEN /\ Return(p, [kind |-> "payload", success |-> TRUE, count |-> 0,
                            collections |-> <<>>])
              /\ UNCHANGED raised
         ELSE /\ pc' = [pc EXCEPT ![p] = "list_info"]
              /\ lnames' = [lnames EXCEPT ![p] = SetToSeq(cols)]
              /\ UNCHANGED <<op, coll, docs, query, limit, thr, lpoints, qvec, linfo,
                             result, raised>>
  /\ UNCHANGED <<cols, pts, nextId, failedAt, embedCalls, genIds, before, disturbed, embVars>>

(* list_collections: one turn of the loop, qdrant.get_collection(col.name) *)
ListInfo(p, fault) ==
  /\ pc[p] = "list_info"
  /\ LET name == Head(lnames[p])
         r == GetCollection(cols, pts, name)
         info == Append(linfo[p], [name |-> name, vectors_count |-> r.vectors_count,
                                   points_count |-> r.points_count])
     IN IF fault \/ ~r.ok
          THEN Fail(p, IF fault THEN StoreDown ELSE r.err)
          ELSE IF Len(lnames[p]) = 1
            THEN /\ Return(p, [kind |-> "payload", success |-> TRUE,
                               count |-> Len(info), collections |-> info])
                 /\ UNCHANGED raised
            ELSE /\ lnames' = [lnames EXCEPT ![p] = Tail(@)]
                 /\ linfo' = [linfo EXCEPT ![p] = info]
                 /\ UNCHANGED <<pc, op, coll, docs, query, limit, thr, lpoints, qvec,
                                result, raised>>
  /\ UNCHANGED <<cols, pts, nextId, failedAt, embedCalls, genIds, before, disturbed, embVars>>

(* delete_collection: qdrant.delete_collection(...) and the success payload *)
Delete(p, fault) ==
  /\ pc[p] = "delete"
  /\ LET r == DeleteCollection(cols, pts, coll[p])
     IN IF fault
          THEN /\ Fail(p, StoreDown)
               /\ UNCHANGED <<cols, pts, before, disturbed>>
          ELSE /\ Return(p, [kind |-> "payload", success |-> TRUE,
                             message |-> "deleted successfully"])
               /\ cols' = r.cols
               /\ pts' = r.pts
               /\ Track(p, r.pts)
               /\ UNCHANGED raised
  /\ UNCHANGED <<nextId, failedAt, embedCalls, genIds, embVars>>

(* get_embedding as add_documents calls it: the request it sends for `text' *)
IndexRequest(text) ==
  /\ reqDoc' = [input |-> text,
                sent |-> EmbeddingRequest(embProvider, embModel, SearchDocument, text)]
  /\ UNCHANGED <<storeVars, nextId, callVars, histVars, embModel, embProvider, reqQuery>>

(* get_embedding as search_documents calls it: the request it sends for `text' *)
QueryRequest(text) ==
  /\ reqQuery' = [input |-> text,
                  sent |-> EmbeddingRequest(embProvider, embModel, SearchQuery, text)]
  /\ UNCHANGED <<storeVars, nextId, callVars, histVars, embModel, embProvider, reqDoc>>

(* --------------------------- specifications --------------------------- *)
DefaultModel == Nomic \o <<"-", "e", "m", "b", "e", "d", "-", "t", "e", "x", "t">>
NoRequest == [input |-> <<>>, sent |-> [url |-> "-"]]

InitPipeline ==
  /\ cols = {}
  /\ pts = [c \in Names |-> {}]
  /\ nextId = 1
  /\ pc = [p \in Procs |-> "idle"]
  /\ op = [p \in Procs |-> "none"]
  /\ coll = [p \in Procs |-> NoName]
  /\ docs = [p \in Procs |-> <<>>]
  /\ query = [p \in Procs |-> ""]
  /\ limit = [p \in Procs |-> 0]
  /\ thr = [p \in Procs |-> 0]
  /\ lpoints = [p \in Procs |-> <<>>]
  /\ qvec = [p \in Procs |-> NoVec]
  /\ lnames = [p \in Procs |-> <<>>]
  /\ linfo = [p \in Procs |-> <<>>]
  /\ result = [p \in Procs |-> NoResult]
  /\ raised = [p \in Procs |-> ""]
  /\ failedAt = [p \in Procs |-> 0]
  /\ embedCalls = [p \in Procs |-> 0]
  /\ genIds = [p \in Procs |-> {}]
  /\ before = [p \in Procs |-> 0]
  /\ disturbed = [p \in Procs |-> FALSE]
  /\ reqDoc = NoRequest
  /\ reqQuery = NoRequest

\* the pipeline, under the default configuration
Init ==
  /\ InitPipeline
  /\ embModel = DefaultModel
  /\ embProvider = Ollama

Next ==
  \/ \E p \in Procs, d \in DocLists, c \in Names : CallAdd(p, d, c)
  \/ \E p \in Procs, qu \in Queries, c \in Names, lim \in Limits, th \in Thresholds :
       CallSearch(p, qu, c, lim, th)
  \/ \E p \in Procs : CallList(p)
  \/ \E p \in Procs, c \in Names : CallDelete(p, c)
  \/ \E p \in Procs, f \in BOOLEAN : EnsureList(p, f)
  \/ \E p \in Procs, f \in BOOLEAN : EnsureCreate(p, f)
  \/ \E p \in Procs, f \in BOOLEAN : Embed(p, f)
  \/ \E p \in Procs, f \in BOOLEAN : Upsert(p, f)
  \/ \E p \in Procs, f \in BOOLEAN : SearchEmbed(p, f)
  \/ \E p \in Procs, f \in BOOLEAN : Query(p, f)
  \/ \E p \in Procs, f \in BOOLEAN : ListGet(p, f)
  \/ \E p \in Procs, f \in BOOLEAN : ListInfo(p, f)
  \/ \E p \in Procs, f \in BOOLEAN : Delete(p, f)

Spec == Init /\ [][Next]_vars

\* the embedding client alone, under every configuration
InitEmbed ==
  /\ InitPipeline
  /\ embModel \in ModelNames
  /\ embProvider \in ProviderNames

NextEmbed ==
  \/ \E t \in Texts : IndexRequest(t)
  \/ \E t \in Texts : QueryRequest(t)

SpecEmbed == InitEmbed /\ [][NextEmbed]_vars

(* ------------------------------- claims ------------------------------- *)
\* p's step ends its call
Returns(p) == pc[p] # "idle" /\ pc'[p] = "idle"

\* p's step ends its call with a success payload
Succeeds(p) == Returns(p) /\ result'[p].kind = "payload" /\ result'[p].success

\* p's step ends its call with a failure payload that carries a message
FailsWithError(p) ==
  /\ Returns(p)
  /\ result'[p].kind = "payload"
  /\ ~result'[p].success
  /\ result'[p].error # ""

\* C1: every operation hands a payload to its caller; when the embedding
\* backend or the store failed inside the call, the payload has success=false
\* and the error's message, and no fault leaves the operation.
C1_AlwaysPayload ==
  \A p \in Procs :
    /\ result[p].kind \in {"none", "payload"}
    /\ (pc[p] = "idle" /\ op[p] # "none") => result[p].kind = "payload"
    /\ raised[p] # "" =>
         /\ pc[p] = "idle"
         /\ result[p].kind = "payload"
         /\ ~result[p].success
         /\ result[p].error = raised[p]

\* two calls have failed, one on the embedding backend after a first document
\* was embedded, one on the store
C1_Witness ==
  \E p, q \in Procs :
    /\ op[p] = "add_documents" /\ raised[p] = ProviderDown /\ failedAt[p] = 2
    /\ op[q] = "list_collections" /\ raised[q] = StoreDown

\* C2: when add_documents returns success=true for N documents, the count it
\* reports is N, the collection holds exactly N points more than right before
\* the upsert (and than when the call began, if nobody else changed it since),
\* and the N new ids are distinct from each other and from the ids it held.
C2_AddCount ==
  [][\A p \in Procs :
       (pc[p] = "upsert" /\ Succeeds(p)) =>
         /\ result'[p].count = Len(docs[p])
         /\ Cardinality(pts'[coll[p]]) = Cardinality(pts[coll[p]]) + Len(docs[p])
         /\ ~disturbed[p] => Cardinality(pts'[coll[p]]) = before[p] + Len(docs[p])
         /\ Cardinality(Ids(Range(lpoints[p]))) = Len(docs[p])
         /\ Ids(Range(lpoints[p])) \cap Ids(pts[coll[p]]) = {}]_vars

\* one document was added to a collection that held a point already
C2_Witness ==
  \E p \in Procs, c \in Names :
    /\ op[p] = "add_documents" /\ pc[p] = "idle"
    /\ result[p].kind = "payload" /\ result[p].success /\ result[p].count = 1
    /\ embedCalls[p] = 1
    /\ Cardinality(pts[c]) = 2

\* C3: when the embedding call of one document fails, add_documents returns
\* success=false, sends no further embedding request (no retry), and none of
\* the points it had built is in the store.
C3_EmbedFailureAborts ==
  \A p \in Procs :
    failedAt[p] # 0 =>
      /\ pc[p] = "idle"
      /\ result[p].kind = "payload" /\ ~result[p].success
      /\ result[p].error = ProviderDown
      /\ embedCalls[p] = failedAt[p]
      /\ \A c \in Names : Ids(pts[c]) \cap genIds[p] = {}

\* the second document's embedding failed after the first was embedded
C3_Witness ==
  \E p \in Procs : failedAt[p] = 2 /\ genIds[p] # {} /\ cols # {}

\* C4: a caller whose create request the store rejects because another
\* caller created the collection first returns from ensure_collection without
\* error: no call fails on "already exists".
C4_CreateRaceTolerated ==
  \A p \in Procs : raised[p] # EnsureRaise("already exists")

\* C5: whenever a caller is about to run ensure_collection, two runs in a row
\* on the store as it is (store reachable, nobody in between) raise nothing,
\* leave the name present, and the second run leaves the collections as the
\* first left them; and a caller that finds the name present goes on without
\* touching the store.
C5_EnsureIdempotent ==
  [][\A p \in Procs :
       pc[p] = "ensure_list" =>
         /\ LET first == EnsureCollectionRun(cols, coll[p])
                second == EnsureCollectionRun(first.cols, coll[p])
            IN /\ ~first.raised /\ ~second.raised
               /\ coll[p] \in first.cols
               /\ second.cols = first.cols
         /\ (pc'[p] # "ensure_list" /\ raised'[p] = "" /\ coll[p] \in cols) =>
              /\ pc'[p] = AfterEnsure(docs[p])
              /\ cols' = cols /\ pts' = pts]_vars

\* two callers are both past ensure_collection for the same name
C5_Witness ==
  \E p, q \in Procs :
    /\ p # q /\ coll[p] = coll[q] /\ coll[p] \in cols
    /\ pc[p] \in {"embed", "upsert"} /\ pc[q] \in {"embed", "upsert"}

\* C6: delete_collection on a name that is not in the store returns
\* success=false with a non-empty error.
C6_DeleteMissingFails ==
  [][\A p \in Procs :
       (pc[p] = "delete" /\ Returns(p) /\ coll[p] \notin cols) => FailsWithError(p)]_vars

\* C7: no step of search_documents changes the store, and a search whose
\* collection is not in the store returns success=false with an error.
C7_SearchCreatesNothing ==
  [][\A p \in Procs :
       (op[p] = "search_documents" /\ pc[p] # "idle" /\ pc'[p] # pc[p]) =>
         /\ cols' = cols /\ pts' = pts
         /\ (pc[p] = "query" /\ coll[p] \notin cols) => FailsWithError(p)]_vars

\* a search has failed on a collection that does not exist
C7_Witness ==
  \E p \in Procs :
    op[p] = "search_documents" /\ pc[p] = "idle" /\ raised[p] = "not found"

\* C8: a successful search returns at most `limit' entries, reports their
\* number as count, and returns no entry that scores below score_threshold.
C8_LimitAndThreshold ==
  [][\A p \in Procs :
       (pc[p] = "query" /\ Succeeds(p)) =>
         /\ Len(result'[p].results) <= limit[p]
         /\ result'[p].count = Len(result'[p].results)
         /\ \A i \in 1..Len(result'[p].results) : result'[p].results[i].score >= thr[p]]_vars

\* a search returned one of the two points of the collection it searched
C8_Witness ==
  \E p \in Procs, c \in Names :
    /\ op[p] = "search_documents" /\ pc[p] = "idle"
    /\ result[p].kind = "payload" /\ result[p].success /\ result[p].count = 1
    /\ result[p].results[1].id \in Ids(pts[c])
    /\ Cardinality(pts[c]) = 2

\* the requests of an indexing call and of a query call on the same text
SameText == reqDoc # NoRequest /\ reqQuery # NoRequest /\ reqDoc.input = reqQuery.input

\* C9 as claimed: when the model name contains the trigger substring the two
\* requests on one text differ, and when it does not the text goes out as is.
C9_PrefixByTrigger ==
  SameText =>
    IF Contains(embModel, Nomic)
      THEN reqDoc.sent # reqQuery.sent
      ELSE reqDoc.sent.text = reqDoc.input /\ reqQuery.sent.text = reqQuery.input

\* C9, amended: the trigger substring is looked for ignoring letter case.
C9_PrefixByTriggerAnyCase ==
  SameText =>
    IF Contains(LowerSeq(embModel), Nomic)
      THEN /\ reqDoc.sent # reqQuery.sent
           /\ reqDoc.sent.text = SearchDocument \o <<":", " ">> \o reqDoc.input
           /\ reqQuery.sent.text = SearchQuery \o <<":", " ">> \o reqQuery.input
      ELSE reqDoc.sent.text = reqDoc.input /\ reqQuery.sent.text = reqQuery.input

\* both requests were built for a text that itself starts like a query
\* prefix, under a model name that has the trigger in capitals
C9_Witness ==
  /\ SameText
  /\ Len(reqDoc.input) > Len(SearchQuery)
  /\ Contains(LowerSeq(embModel), Nomic) /\ ~Contains(embModel, Nomic)

\* C10: a stored point stays in its collection, as it was written and with no
\* second point of its id, through every step but a delete_collection call on
\* that collection.
C10_PointsImmutable ==
  [][\A c \in Names : \A x \in pts[c] :
       \/ x \in pts'[c] /\ \A y \in pts'[c] : y.id = x.id => y = x
       \/ \E p \in Procs :
            op[p] = "delete_collection" /\ pc[p] = "delete" /\ coll[p] = c /\ Succeeds(p)]_vars

\* a collection was deleted while the other collection kept its points
C10_Witness ==
  \E p \in Procs, c \in Names :
    /\ op[p] = "delete_collection" /\ pc[p] = "idle"
    /\ result[p].kind = "payload" /\ result[p].success
    /\ Cardinality(pts[c]) = 2
    /\ Cardinality(cols) = 1

====
